---- MODULE Spec2Model ----
(***************************************************************************)
(* Model of assets/main.cpp: the version-reporting entry point.            *)
(*                                                                         *)
(*   int main(int argc, char **argv) {                                     *)
(*       const Version version;                                            *)
(*       printf("package %s\n", version.package);                          *)
(*       printf("git sha = %s\n", version.git_sha1);                       *)
(*       printf("git decription = %s\n", version.git_description);         *)
(*       return 0;                                                         *)
(*   }                                                                     *)
(*                                                                         *)
(* Text is a sequence of one-character strings, so that formatting is      *)
(* computed character by character.  One behaviour of the model is a       *)
(* series of invocations of the same binary: the build-time values stay,   *)
(* the arguments change, and a summary of the invocation before is kept.   *)
(***************************************************************************)
EXTENDS Integers, Sequences, FiniteSets, TLC

\* ------------------------------------------------------------------ bounds

\* Longest argument vector handed to main (argc ranges over 0..MaxArgc).
MaxArgc == 1

\* Most characters a failing write still delivers to the stream (0: none).
MaxPartial == 0

\* ------------------------------------------------------------- input sets

\* The strings an argument vector is made of.
ArgStrings == {"prog", "-v"}

\* The argument vectors: every sequence of ArgStrings of length 0..MaxArgc.
Argvs == UNION {[1..n -> ArgStrings] : n \in 0..MaxArgc}

\* The single-line texts a field of Version can hold: empty, plain, and one
\* that itself looks like a conversion specification.
FieldValues == {<<>>, <<"a", "b">>, <<"%", "s">>}

\* The build-time contents of Version.
Versions == [package : FieldValues, git_sha1 : FieldValues, git_description : FieldValues]

VARIABLES
    build,          \* the values the build generated into version.h
    argc,           \* main's first parameter
    argv,           \* main's second parameter
    pc,             \* the statement of main that runs next
    version,        \* the local `version`: <<>> before line 5, <<v>> after
    constructions,  \* how often line 5 ran in this invocation
    issued,         \* the texts the printf calls of this invocation formatted
    results,        \* the values those printf calls returned
    out,            \* the characters standard output accepted
    exit,           \* <<>> while main runs, <<status>> once it returned
    prev            \* <<>>, or <<summary of the invocation before this one>>

vars == <<build, argc, argv, pc, version, constructions, issued, results, out, exit, prev>>

\* ------------------------------------------------------------ format text

FmtPackage == <<"p","a","c","k","a","g","e"," ","%","s","\n">>

FmtSha == <<"g","i","t"," ","s","h","a"," ","="," ","%","s","\n">>

FmtDescriptionSpelled ==
    <<"g","i","t"," ","d","e","s","c","r","i","p","t","i","o","n"," ","="," ","%","s","\n">>

FmtDescription ==
    <<"g","i","t"," ","d","e","c","r","i","p","t","i","o","n"," ","="," ","%","s","\n">>

\* printf's conversion of one format with one string argument: every
\* character is copied, except that "%s" is replaced by the argument (which
\* is copied as it is, never scanned for conversions again).
RECURSIVE Format(_, _)
Format(fmt, arg) ==
    IF fmt = <<>> THEN <<>>
    ELSE IF Len(fmt) >= 2 /\ fmt[1] = "%" /\ fmt[2] = "s"
         THEN arg \o Format(SubSeq(fmt, 3, Len(fmt)), arg)
         ELSE <<fmt[1]>> \o Format(Tail(fmt), arg)

\* ----------------------------------------------------------- control flow

\* Changed main: the first printf runs before the object exists.
EntryAtPrintf == "printf_package"

\* Where main starts.
Entry == "construct"

\* Changed main: lines 6 and 7 swapped.
SuccessorShaFirst(p) ==
    CASE p = "construct"          -> "printf_sha"
      [] p = "printf_sha"         -> "printf_package"
      [] p = "printf_package"     -> "printf_description"
      [] p = "printf_description" -> "return"
      [] p = "return"             -> "exited"

\* Changed main: a return right after line 6.
SuccessorEarlyReturn(p) ==
    CASE p = "construct"          -> "printf_package"
      [] p = "printf_package"     -> "return"
      [] p = "printf_sha"         -> "printf_description"
      [] p = "printf_description" -> "return"
      [] p = "return"             -> "exited"

\* Changed main: the return statement never leaves main.
SuccessorStuck(p) ==
    CASE p = "construct"          -> "printf_package"
      [] p = "printf_package"     -> "printf_sha"
      [] p = "printf_sha"         -> "printf_description"
      [] p = "printf_description" -> "return"
      [] p = "return"             -> "return"

\* The statement after statement p, in the order of lines 5 to 9.
Successor(p) ==
    CASE p = "construct"          -> "printf_package"
      [] p = "printf_package"     -> "printf_sha"
      [] p = "printf_sha"         -> "printf_description"
      [] p = "printf_description" -> "return"
      [] p = "return"             -> "exited"

\* Changed main: return argc;
ReturnValueFromArgc == argc

\* Changed main: a failure status when the package name is empty.
ReturnValueByPackage == IF build.package = <<>> THEN 1 ELSE 0

\* Changed main: a failure status when a printf call failed.
ReturnValueOnError == IF \E i \in 1..Len(results) : results[i] < 0 THEN 1 ELSE 0

\* The value main returns.
ReturnValue == 0

\* The object `const Version version;` yields: the build-time values.
Version == build

\* The values a read of field f of the local can yield: the field, or any
\* value at all when the object does not exist yet.
FieldRead(f) ==
    IF version = <<>> THEN FieldValues ELSE {version[1][f]}

\* What one call of printf on a formatted text can do to the stream: accept
\* it all and return its length, or fail, accept a few of its characters at
\* most, and return a negative value.
Outcomes(text) ==
    {[ret |-> Len(text), taken |-> text]}
    \cup {[ret |-> -1, taken |-> SubSeq(text, 1, k)] : k \in 0..MaxPartial}

\* ------------------------------------------------------------------ state

Init ==
    /\ build \in Versions
    /\ argv \in Argvs
    /\ argc = Len(argv)
    /\ pc = Entry
    /\ version = <<>>
    /\ constructions = 0
    /\ issued = <<>>
    /\ results = <<>>
    /\ out = <<>>
    /\ exit = <<>>
    /\ prev = <<>>

\* Line 5: const Version version;
Construct ==
    /\ pc = "construct"
    /\ version' = <<Version>>
    /\ constructions' = constructions + 1
    /\ pc' = Successor(pc)
    /\ UNCHANGED <<build, argc, argv, issued, results, out, exit, prev>>

\* Changed printf statement: the field is cleared once it is printed.
PrintfCallConsuming(at, fmt, f) ==
    /\ pc = at
    /\ \E arg \in FieldRead(f) :
         \E o \in Outcomes(Format(fmt, arg)) :
            /\ issued' = Append(issued, Format(fmt, arg))
            /\ results' = Append(results, o.ret)
            /\ out' = out \o o.taken
    /\ version' = IF version = <<>> THEN version
                  ELSE <<[version[1] EXCEPT ![f] = <<>>]>>
    /\ pc' = Successor(pc)
    /\ UNCHANGED <<build, argc, argv, constructions, exit, prev>>

\* Changed printf statement: the field is overwritten by the text printed.
PrintfCallOverwriting(at, fmt, f) ==
    /\ pc = at
    /\ \E arg \in FieldRead(f) :
         \E o \in Outcomes(Format(fmt, arg)) :
            /\ issued' = Append(issued, Format(fmt, arg))
            /\ results' = Append(results, o.ret)
            /\ out' = out \o o.taken
            /\ version' = IF version = <<>> THEN version
                          ELSE <<[version[1] EXCEPT ![f] = Format(fmt, arg)]>>
    /\ pc' = Successor(pc)
    /\ UNCHANGED <<build, argc, argv, constructions, exit, prev>>

\* One printf statement: format, hand the text to the stream, ignore what
\* the call returns, go on to the next statement.
PrintfCall(at, fmt, f) ==
    /\ pc = at
    /\ \E arg \in FieldRead(f) :
         \E o \in Outcomes(Format(fmt, arg)) :
            /\ issued' = Append(issued, Format(fmt, arg))
            /\ results' = Append(results, o.ret)
            /\ out' = out \o o.taken
    /\ pc' = Successor(pc)
    /\ UNCHANGED <<build, argc, argv, version, constructions, exit, prev>>

\* Line 6
PrintfPackage == PrintfCall("printf_package", FmtPackage, "package")

\* Line 7
PrintfSha == PrintfCall("printf_sha", FmtSha, "git_sha1")

\* Line 8
PrintfDescription == PrintfCall("printf_description", FmtDescription, "git_description")

\* Line 9: return 0;
Return ==
    /\ pc = "return"
    /\ exit' = <<ReturnValue>>
    /\ pc' = Successor(pc)
    /\ UNCHANGED <<build, argc, argv, version, constructions, issued, results, out, prev>>

\* The same binary is started again, with any arguments: a new process, a
\* new stream, and the finished invocation remembered.
Invoke ==
    /\ pc = "exited"
    /\ prev' = <<[argc |-> argc, argv |-> argv, issued |-> issued, exit |-> exit]>>
    /\ argv' \in Argvs
    /\ argc' = Len(argv')
    /\ pc' = Entry
    /\ version' = <<>>
    /\ constructions' = 0
    /\ issued' = <<>>
    /\ results' = <<>>
    /\ out' = <<>>
    /\ exit' = <<>>
    /\ UNCHANGED build

\* The statements of main.
Run == Construct \/ PrintfPackage \/ PrintfSha \/ PrintfDescription \/ Return

Next ==
    \/ Construct
    \/ PrintfPackage
    \/ PrintfSha
    \/ PrintfDescription
    \/ Return
    \/ Invoke

Spec == Init /\ [][Next]_vars

\* A started process runs on: every statement of main returns.
FairSpec == Spec /\ WF_vars(Run)

\* ----------------------------------------------------------------- claims

\* The literal text each line starts with, written out independently of the
\* formats above.
PrefixPackage == <<"p","a","c","k","a","g","e"," ">>

PrefixSha == <<"g","i","t"," ","s","h","a"," ","="," ">>

PrefixDescription == <<"g","i","t"," ","d","e","c","r","i","p","t","i","o","n"," ","="," ">>

Newline == <<"\n">>

Prefixes == <<PrefixPackage, PrefixSha, PrefixDescription>>

StartsWith(text, prefix) ==
    Len(text) >= Len(prefix) /\ SubSeq(text, 1, Len(prefix)) = prefix

\* One line: its only newline is its last character.
IsLine(text) ==
    /\ Len(text) >= 1
    /\ text[Len(text)] = "\n"
    /\ \A i \in 1..(Len(text) - 1) : text[i] # "\n"

RECURSIVE Concat(_)
Concat(texts) ==
    IF texts = <<>> THEN <<>> ELSE Head(texts) \o Concat(Tail(texts))

\* How many printf statements precede statement p in main.
WritesBefore(p) ==
    CASE p \in {"construct", "printf_package"} -> 0
      [] p = "printf_sha"                       -> 1
      [] p = "printf_description"               -> 2
      [] p \in {"return", "exited"}             -> 3

AllWritesSucceeded == \A i \in 1..Len(results) : results[i] >= 0

SomeWriteFailed == \E i \in 1..Len(results) : results[i] < 0

\* The three lines the claim describes for field values v.
ExpectedLines(v) ==
    << PrefixPackage \o v.package \o Newline,
       PrefixSha \o v.git_sha1 \o Newline,
       PrefixDescription \o v.git_description \o Newline >>

\* The spec's worked example.
DemoPackage == <<"d","e","m","o","-","p","k","g">>

DemoSha == <<"a","b","c","1","2","3","4">>

DemoDescription == <<"v","1",".","2",".","0","-","3","-","g","a","b","c","1","2","3","4">>

\* C1: at every point of a run the texts written so far are the first lines
\* of the sequence package line, sha line, description line, as many as
\* there are printf statements behind the program counter, each one line
\* ending in a newline; a finished run has written exactly the three; and
\* the stream holds exactly these lines, one after the other, when no write
\* failed.
C1_ThreeLinesInOrder ==
    /\ Len(issued) = WritesBefore(pc)
    /\ \A i \in 1..Len(issued) : IsLine(issued[i]) /\ StartsWith(issued[i], Prefixes[i])
    /\ pc = "exited" => Len(issued) = 3
    /\ AllWritesSucceeded => out = Concat(issued)

C1_Witness ==
    /\ pc = "exited"
    /\ AllWritesSucceeded
    /\ Len(issued) = 3
    /\ out = Concat(issued)
    /\ Len(out) > Len(PrefixPackage) + Len(PrefixSha) + Len(PrefixDescription) + 3

\* C2: for every triple of field values, the i-th text written is the i-th
\* literal prefix, then the i-th field, then a newline, and nothing else;
\* and the worked example formats to the three lines the spec shows.
C2_LinesCarryOwnField ==
    /\ issued # <<>> => version # <<>>
    /\ \A i \in 1..Len(issued) : issued[i] = ExpectedLines(version[1])[i]
    /\ Format(FmtPackage, DemoPackage) = PrefixPackage \o DemoPackage \o Newline
    /\ Format(FmtSha, DemoSha) = PrefixSha \o DemoSha \o Newline
    /\ Format(FmtDescription, DemoDescription)
         = PrefixDescription \o DemoDescription \o Newline

C2_Witness ==
    /\ pc = "exited"
    /\ version # <<>>
    /\ version[1].package = <<"a", "b">>
    /\ version[1].git_sha1 = <<"%", "s">>
    /\ version[1].git_description = <<>>
    /\ issued = ExpectedLines(version[1])
    /\ AllWritesSucceeded
    /\ out = Concat(ExpectedLines(version[1]))

\* C3: a finished invocation has written the same texts and returned the
\* same status as the invocation of the same binary before it, whatever the
\* two argument counts and vectors were.
C3_ArgumentsIgnored ==
    (pc = "exited" /\ prev # <<>>) =>
        /\ issued = prev[1].issued
        /\ exit = prev[1].exit

C3_Witness ==
    /\ pc = "exited"
    /\ prev # <<>>
    /\ prev[1].argc = 0
    /\ argc = 1
    /\ argv # prev[1].argv
    /\ issued = prev[1].issued
    /\ exit = prev[1].exit

\* C4: the exit status of every finished run is 0, and no state carries
\* another status.
C4_ExitStatusZero ==
    /\ pc = "exited" => exit = <<0>>
    /\ exit \in {<<>>, <<0>>}

C4_Witness ==
    /\ pc = "exited"
    /\ exit = <<0>>
    /\ build.package = <<>>
    /\ build.git_sha1 = <<>>
    /\ build.git_description = <<>>
    /\ argc > 0

\* C5: once a write has failed, the program still stands where the number
\* of writes attempted says, every write was attempted exactly once and in
\* order, and the run ends with all three attempted and status 0.
C5_WriteFailureIgnored ==
    SomeWriteFailed =>
        /\ Len(results) = Len(issued)
        /\ Len(issued) = WritesBefore(pc)
        /\ \A i \in 1..Len(issued) : StartsWith(issued[i], Prefixes[i])
        /\ pc = "exited" => (Len(issued) = 3 /\ exit = <<0>>)

C5_Witness ==
    /\ pc = "exited"
    /\ results[1] < 0
    /\ results[2] >= 0
    /\ results[3] < 0
    /\ Len(issued) = 3
    /\ exit = <<0>>

C7_ConstructedOnceNeverModified ==
    /\ pc = "construct" => (version = <<>> /\ constructions = 0)
    /\ pc # "construct" => (version = <<build>> /\ constructions = 1)

C7_Witness ==
    /\ pc = "exited"
    /\ prev # <<>>
    /\ constructions = 1
    /\ version = <<build>>
    /\ build.git_description # <<>>
    /\ Len(issued) = 3

\* C8: every started run reaches the terminated state.
C8_Terminates == (pc = "construct") ~> (pc = "exited")

C8_Witness ==
    /\ pc = "exited"
    /\ Len(results) = 3
    /\ exit # <<>>
    /\ prev = <<>>

\* C9: nothing is written before the object is constructed, the values
\* written are three texts of the object, and construction cannot fail: it
\* is possible whenever it is the next statement and leaves an object.
C9_ConstructBeforeWrite ==
    /\ issued # <<>> => (version # <<>> /\ constructions >= 1)
    /\ version # <<>> => version[1] \in Versions
    /\ pc = "construct" => ENABLED Construct
    /\ pc = "printf_package" => version # <<>>

C9_Witness ==
    /\ pc = "printf_sha"
    /\ Len(issued) = 1
    /\ version # <<>>
    /\ constructions = 1

\* C10: a state that carries an exit status has all three writes behind it.
C10_ReturnAfterThreeWrites ==
    exit # <<>> => (Len(issued) = 3 /\ Len(results) = 3)

C10_Witness ==
    /\ exit # <<>>
    /\ Len(issued) = 3
    /\ SomeWriteFailed
    /\ argc = 0

====
